---- MODULE Spec2Model ----
(***************************************************************************)
(* cycle-lazy-load: getRawLoadInstruction (raw engine) and                 *)
(* getChainedLoadInstruction (chained engine) as one state machine.        *)
(*                                                                         *)
(* Every stream operator of the source is modelled by the state it keeps   *)
(* between two events (fold accumulators, the inner stream a flatten is    *)
(* currently subscribed to, the values held by combineUnique, the timers   *)
(* of debounce / throttle / delay).  An action is one external event (a    *)
(* settings value, a scroll or resize event, a content batch), one timer   *)
(* firing, or the passage of one tick of time, together with everything    *)
(* the stream graph does synchronously in reaction to it.                  *)
(***************************************************************************)
EXTENDS Integers, Sequences, FiniteSets, TLC

(***************************************************************************)
(* JavaScript values a setting or a delta may hold.  NaN stands for any    *)
(* value isNaN() accepts other than undefined (the tests use strings).     *)
(* A number is held as a count of halves, so that a setting such as 1.5,   *)
(* which the TypeScript type `number` admits, is a value of the model.     *)
(***************************************************************************)
Undefined == [t |-> "undefined"]
NaN == [t |-> "NaN"]
Half(k) == [t |-> "number", halves |-> k]
Num(n) == Half(n + n)

IsNumber(v) == v.t = "number"
isNaN(v) == v.t # "number"
IsInteger(v) == IsNumber(v) /\ v.halves % 2 = 0
\* The integer an integer-valued number holds.
IntOf(v) == v.halves \div 2
\* JS relational operators: any comparison with undefined / NaN is false.
Gt(a, b) == IsNumber(a) /\ IsNumber(b) /\ a.halves > b.halves
Ge(a, b) == IsNumber(a) /\ IsNumber(b) /\ a.halves >= b.halves
Lt(a, b) == IsNumber(a) /\ IsNumber(b) /\ a.halves < b.halves
Le(a, b) == IsNumber(a) /\ IsNumber(b) /\ a.halves <= b.halves
Plus(a, b) == IF IsNumber(a) /\ IsNumber(b) THEN Half(a.halves + b.halves) ELSE NaN
Negate(a) == IF IsNumber(a) THEN Half(0 - a.halves) ELSE NaN
\* Math.max / Math.min: NaN as soon as one argument is not a number.
MathMax(a, b) == IF IsNumber(a) /\ IsNumber(b) THEN (IF Ge(a, b) THEN a ELSE b) ELSE NaN
MathMin(a, b) == IF IsNumber(a) /\ IsNumber(b) THEN (IF Le(a, b) THEN a ELSE b) ELSE NaN
\* Math.ceil(deltaY / contentHeight): deltaY a positive integer, contentHeight
\* a positive number.
CeilDiv(deltaY, contentHeight) ==
  (deltaY + deltaY + contentHeight.halves - 1) \div contentHeight.halves

(***************************************************************************)
(* Bounds of the model.                                                    *)
(***************************************************************************)
MaxSettings == 2    \* settings values received
MaxEvents == 4      \* scroll / resize events, content batches and ticks of the clock
MaxDelta == 3       \* largest deltaY of an event, px
MaxKey == 2         \* sort keys are <<1>> .. <<MaxKey>>, or the empty key

\* One tick of the clock, ms (the tests' mockTimeSource interval).
TickMs == 20
\* timeSource.delay(20) on the buffer deltas.
BufferDelayMs == 20


(***************************************************************************)
(* Inputs.                                                                 *)
(***************************************************************************)
MakeSettings(c, b, d, t, mn, mx) ==
  [contentHeight |-> c, buffer |-> b, debounce |-> d, throttle |-> t,
   minQuantity |-> mn, maxQuantity |-> mx]

\* Settings values no validation rule rejects: no floor and no ceiling, a
\* floor, a ceiling, a ceiling that is no integer, both, a higher floor, a
\* buffer.
ValidSettingsInputs ==
  {MakeSettings(Num(1), Undefined, Undefined, Undefined, Undefined, Undefined),
   MakeSettings(Num(1), Undefined, Undefined, Undefined, Num(2), Undefined),
   MakeSettings(Num(1), Undefined, Undefined, Undefined, Undefined, Num(1)),
   MakeSettings(Num(1), Undefined, Undefined, Undefined, Undefined, Half(3)),
   MakeSettings(Num(1), Undefined, Undefined, Undefined, Num(2), Num(2)),
   MakeSettings(Num(1), Undefined, Undefined, Undefined, Num(3), Num(3)),
   MakeSettings(Num(1), Num(2), Undefined, Undefined, Undefined, Undefined)}

\* A settings value that breaks a validation rule: no contentHeight (an update
\* of the throttle alone).
InvalidSettingsInputs ==
  {MakeSettings(Undefined, Undefined, Undefined, Num(TickMs), Undefined, Undefined)}

SettingsInputs == ValidSettingsInputs \cup InvalidSettingsInputs

\* A WheelEvent or ResizeEvent: only deltaY is read.  Undefined is an event
\* that carries deltaX or deltaZ only.
EventInputs ==
  {[deltaY |-> d] : d \in {Undefined, Num(0 - 1), Num(0)} \cup {Num(n) : n \in 1..MaxDelta}}

SortKeys == {<<>>} \cup {<<k>> : k \in 1..MaxKey}
\* Content batches: empty, or one or two items.
ContentInputs ==
  {<<>>} \cup {<<[sort |-> a]>> : a \in SortKeys}
         \cup {<<[sort |-> a], [sort |-> b]>> : a \in SortKeys, b \in SortKeys}

(***************************************************************************)
(* State.                                                                  *)
(***************************************************************************)
VARIABLES
  accumulatedSettings,  \* raw engine: settings$.fold(accumulateSettings, {})
  nSettings,            \* settings values received so far
  minQuantitySetting,   \* floor of the inner stream applyMinQuantity is flattened on
  maxQuantitySetting,   \* ceiling of the inner stream applyMaxQuantity is flattened on
  debounced,            \* debounceAndAccumulate: pending sum and ms left before it is emitted
                        \* (and history: the events it holds, their deltas, ms since the last)
  sinceThrottled,       \* throttle: ms since its last emission, saturated at Never
  lastBuffer,           \* pairwise: previous valid buffer value
  delayed,              \* timeSource.delay(20): buffer deltas in flight, with ms left
                        \* (and history: the contentHeight in effect when each entered)
  remaining,            \* fold(accumulateQuantities, 0): the pending surplus
  combined,             \* combineUnique: latest value of each input, and whether unused
  error,                \* the error the output stream ended with, if any
  raw,                  \* the RawLoadInstruction the raw engine emitted in the last step, if any
                        \* (and history: its stream, the events and the delta it comes from,
                        \* the contentHeight in effect when that delta was made)
  dropped,              \* what the last step dropped: an event at the filter, a delta at the throttle,
                        \* a pending delta at a settings value
  out,                  \* instructions delivered to the listener of the output stream
  emitting,             \* the last step delivered the last instruction of out
  history,              \* history: what was received since the start, or since that instruction
  nEvents               \* events, batches and ticks so far

vars ==
  <<accumulatedSettings, nSettings, minQuantitySetting, maxQuantitySetting, debounced,
    sinceThrottled, lastBuffer, delayed, remaining, combined, error, raw, dropped,
    out, emitting, history, nEvents>>

NoError == "none"
failed == error # NoError

\* The flatten operators have an inner stream, and combineUnique is subscribed
\* to its inputs, from the first settings value on.
started == nSettings > 0

\* Time since the last throttled emission beyond which every period has elapsed.
Never == 2 * TickMs

(***************************************************************************)
(* Raw engine: settings.                                                   *)
(***************************************************************************)
DEFAULT_SETTINGS ==
  [contentHeight |-> Num(0), buffer |-> Num(0), debounce |-> Num(0), throttle |-> Num(0)]

\* accumulateSettings keeping the update alone.
accumulateSettingsReplace(accumulator, current) == current

\* { ...accumulator, ...current }: a field the update does not carry keeps its value.
accumulateSettings(accumulator, current) ==
  [f \in DOMAIN accumulator |-> IF current[f] = Undefined THEN accumulator[f] ELSE current[f]]

\* mergeAndValidateSingleOption taking the magnitude of a negative option.
mergeAndValidateSingleOptionMagnitude(option, default) ==
  IF IsNumber(option) /\ option.halves # 0
  THEN (IF option.halves < 0 THEN Negate(option) ELSE option)
  ELSE default

\* Math.max(0, settings[optionName]) || defaults[optionName]
mergeAndValidateSingleOption(option, default) ==
  LET m == MathMax(Num(0), option)
  IN IF IsNumber(m) /\ m.halves # 0 THEN m ELSE default

mergeAndValidateSettings(settings) ==
  [f \in DOMAIN DEFAULT_SETTINGS |->
     mergeAndValidateSingleOption(settings[f], DEFAULT_SETTINGS[f])]

\* The value validSettings$ remembers: the defaults until a settings value
\* arrives (and the merge of an empty accumulator is the defaults).
validSettings == mergeAndValidateSettings(accumulatedSettings)

\* getBufferDelta's filter: contentHeight > 0 && buffer > 0
bufferSettingsAreValid(settings) ==
  Gt(settings.contentHeight, Num(0)) /\ Gt(settings.buffer, Num(0))

\* computeDelta taking the distance between the two values.
computeDeltaDistance(first, second) ==
  IF second - first > 0 THEN second - first ELSE first - second

\* Math.max(0, second - first)
computeDelta(first, second) == IF second - first > 0 THEN second - first ELSE 0

\* bufferIsGreater letting no delta through.
bufferIsGreaterNever(deltaY) == FALSE

bufferIsGreater(deltaY) == deltaY > 0

(***************************************************************************)
(* Raw engine: from a delta to an instruction.                             *)
(***************************************************************************)
\* isScrollingDownOrResizingToTallerWindow letting a deltaY of 0 through.
isScrollingDownOrResizingToTallerWindowOrStill(event) == Ge(event.deltaY, Num(0))

isScrollingDownOrResizingToTallerWindow(event) == Gt(event.deltaY, Num(0))

\* applySettingToValue rounding down.
applySettingToValueFloor(contentHeight, deltaY) ==
  IF Gt(contentHeight, Num(0))
  THEN Num((deltaY + deltaY) \div contentHeight.halves)
  ELSE Undefined

\* The quantity of the RawLoadInstruction, Undefined when it carries none.
applySettingToValue(contentHeight, deltaY) ==
  IF Gt(contentHeight, Num(0)) THEN Num(CeilDiv(deltaY, contentHeight)) ELSE Undefined

\* getScrollOrResizeDelta keeping what the debounce it replaces was holding.
getScrollOrResizeDeltaKeeping(pending) == pending

\* timeSettings$.map(...).flatten(): at each time settings value a new
\* debounce replaces the previous one, and what that one held is discarded.
getScrollOrResizeDelta(pending) == [sum |-> 0, ms |-> 0, events |-> 0, deltaY |-> 0, elapsed |-> 0]

\* accumulate keeping the last delta alone, as a plain debounce does.
accumulateLast(accumulator, current) == current

\* The accumulate function handed to debounceAndAccumulate.
accumulate(accumulator, current) == accumulator + current

\* isThrottled with a window that ends just before the period has elapsed.
isThrottledBefore(since, period) == since < Never /\ since < period

\* timeSource.throttle(period): an event is dropped when the time since the
\* last emitted one is <= period.
isThrottled(since, period) == since < Never /\ since <= period

(***************************************************************************)
(* Chained engine: validation.  Each operator is the message the source    *)
(* throws, or NoError when it returns true.                                *)
(***************************************************************************)
isContentHeightValid(contentHeight) ==
  IF contentHeight = Undefined THEN "contentHeight must be defined"
  ELSE IF isNaN(contentHeight) THEN "contentHeight must be a number"
  ELSE IF Le(contentHeight, Num(0)) THEN "contentHeight must be greater than 0"
  ELSE NoError

isMinQuantityValid(minQuantity) ==
  IF minQuantity = Undefined THEN NoError
  ELSE IF isNaN(minQuantity) THEN "minQuantity must be a number"
  ELSE IF Lt(minQuantity, Num(0)) THEN "minQuantity must be greater than or equal to 0"
  ELSE NoError

\* isMaxQuantityValid with the bound one too low (maxQuantity < 0).
isMaxQuantityValidFromZero(maxQuantity) ==
  IF maxQuantity = Undefined THEN NoError
  ELSE IF isNaN(maxQuantity) THEN "maxQuantity must be a number"
  ELSE IF Lt(maxQuantity, Num(0)) THEN "maxQuantity must be greater than or equal to 1"
  ELSE NoError

isMaxQuantityValid(maxQuantity) ==
  IF maxQuantity = Undefined THEN NoError
  ELSE IF isNaN(maxQuantity) THEN "maxQuantity must be a number"
  ELSE IF Lt(maxQuantity, Num(1)) THEN "maxQuantity must be greater than or equal to 1"
  ELSE NoError

areMinAndMaxCompatible(minQuantity, maxQuantity) ==
  IF minQuantity = Undefined \/ maxQuantity = Undefined THEN NoError
  ELSE IF Gt(minQuantity, maxQuantity)
       THEN "minQuantity must be lesser than or equal to maxQuantity"
  ELSE NoError

\* settingsAreValid with the checks of the quantities ahead of the check of
\* contentHeight.
settingsAreValidQuantitiesFirst(settings) ==
  IF isMinQuantityValid(settings.minQuantity) # NoError
    THEN isMinQuantityValid(settings.minQuantity)
  ELSE IF isMaxQuantityValid(settings.maxQuantity) # NoError
    THEN isMaxQuantityValid(settings.maxQuantity)
  ELSE IF areMinAndMaxCompatible(settings.minQuantity, settings.maxQuantity) # NoError
    THEN areMinAndMaxCompatible(settings.minQuantity, settings.maxQuantity)
  ELSE isContentHeightValid(settings.contentHeight)

\* a && b && c && d: the first check that throws decides.
settingsAreValid(settings) ==
  IF isContentHeightValid(settings.contentHeight) # NoError
    THEN isContentHeightValid(settings.contentHeight)
  ELSE IF isMinQuantityValid(settings.minQuantity) # NoError
    THEN isMinQuantityValid(settings.minQuantity)
  ELSE IF isMaxQuantityValid(settings.maxQuantity) # NoError
    THEN isMaxQuantityValid(settings.maxQuantity)
  ELSE areMinAndMaxCompatible(settings.minQuantity, settings.maxQuantity)

\* spotInvalidSettings given the settings value merged over the contentHeight
\* of the previous ones.
spotInvalidSettingsMerged(settings) ==
  settingsAreValid([settings EXCEPT !.contentHeight =
                      IF @ = Undefined THEN accumulatedSettings.contentHeight ELSE @])

\* settings$.filter(settingsAreInvalid): the filter is given each settings
\* value as received; a throw inside it is the error of the stream.
spotInvalidSettings(settings) == settingsAreValid(settings)

(***************************************************************************)
(* Chained engine: the loop.  core is the record                           *)
(*   remaining : the fold accumulator,                                     *)
(*   combined  : the values combineUnique holds,                           *)
(*   emitted   : the instructions emitted while handling the event.        *)
(***************************************************************************)
quantityIsPositive(quantity) == Gt(quantity, Num(0))

\* accumulateQuantities keeping the last value alone.
accumulateQuantitiesLast(accumulator, current) == current

accumulateQuantities(accumulator, current) == Plus(accumulator, current)

\* filterStreamWithMinQuantity without its floor.
filterStreamWithMinQuantityOff(minQuantity, quantity) == TRUE

filterStreamWithMinQuantity(minQuantity, quantity) ==
  IF minQuantity # Undefined THEN Ge(quantity, minQuantity) ELSE TRUE

\* capWithQuantity without its ceiling.
capWithQuantityUncapped(maxQuantity, quantity) == quantity

capWithQuantity(maxQuantity, quantity) == MathMin(quantity, maxQuantity)

capStreamWithMaxQuantity(maxQuantity, quantity) ==
  IF maxQuantity # Undefined THEN capWithQuantity(maxQuantity, quantity) ELSE quantity

\* getQuantityToRemove taking nothing off the fold.
getQuantityToRemoveNothing(quantity) == Num(0)

\* getQuantityToRemove: -quantity of each instruction emitted, fed back into
\* the fold through the imitation.
getQuantityToRemove(quantity) == Negate(quantity)

\* merge(quantityToAdd$, quantityToRemove$).fold(...).filter(quantityIsPositive),
\* then the inner stream of applyMinQuantity, then input 0 of combineUnique.
computeRemainingQuantityToLoad(core, current) ==
  LET sum == accumulateQuantities(core.remaining, current)
      passes == /\ quantityIsPositive(sum)
                /\ started
                /\ filterStreamWithMinQuantity(minQuantitySetting, sum)
  IN [core EXCEPT !.remaining = sum,
                  !.combined = IF passes
                               THEN [@ EXCEPT !.quantity = sum, !.quantityFresh = TRUE]
                               ELSE @]

\* getLoadInstruction over a combine that emits on every new quantity, whether
\* or not the cursor is new (xstream's combine in place of combineUnique).
getLoadInstructionCombineLatest(core) ==
  IF core.combined.quantityFresh /\ started
  THEN LET quantity == capStreamWithMaxQuantity(maxQuantitySetting, core.combined.quantity)
           instruction == [quantity |-> quantity, after |-> core.combined.after,
                           surplus |-> core.remaining]
           used == [core EXCEPT !.combined.quantityFresh = FALSE,
                                !.combined.afterFresh = FALSE,
                                !.emitted = Append(@, instruction)]
       IN [used EXCEPT !.remaining = accumulateQuantities(@, getQuantityToRemove(quantity))]
  ELSE core

\* combineUnique(remainingQuantityToLoad$, after$): emits the latest pair once
\* each input has a value it has not yet emitted, and marks both as used;
\* then makeLoadInstruction, the inner stream of applyMaxQuantity, and the
\* imitation that feeds -quantity back into the fold.
getLoadInstruction(core) ==
  IF core.combined.quantityFresh /\ core.combined.afterFresh
  THEN LET quantity == capStreamWithMaxQuantity(maxQuantitySetting, core.combined.quantity)
           instruction == [quantity |-> quantity, after |-> core.combined.after,
                           surplus |-> core.remaining]
           used == [core EXCEPT !.combined.quantityFresh = FALSE,
                                !.combined.afterFresh = FALSE,
                                !.emitted = Append(@, instruction)]
       IN computeRemainingQuantityToLoad(used, getQuantityToRemove(quantity))
  ELSE core

\* getQuantityToAdd counting an instruction without a quantity as one item.
getQuantityToAddOrOne(core, quantity) ==
  IF quantityIsPositive(quantity)
  THEN getLoadInstruction(computeRemainingQuantityToLoad(core, quantity))
  ELSE IF quantity = Undefined
  THEN getLoadInstruction(computeRemainingQuantityToLoad(core, Num(1)))
  ELSE core

\* getQuantityToAdd: extractQuantity, filter(quantityIsPositive), into the loop.
getQuantityToAdd(core, quantity) ==
  IF quantityIsPositive(quantity)
  THEN getLoadInstruction(computeRemainingQuantityToLoad(core, quantity))
  ELSE core

hasContent(result) == Len(result) > 0
\* getLastContentSortAttribute reading the first item instead of the last.
getLastContentSortAttributeFirst(result) == result[1].sort

getLastContentSortAttribute(result) == result[Len(result)].sort
\* isValidSortAttribute taking no sort key for a cursor.
isValidSortAttributeNever(sort) == FALSE

isValidSortAttribute(sort) == Len(sort) > 0

\* getAfter taking an empty batch for a return to the start: the cursor [].
getAfterFromEmpty(core, result) ==
  IF started /\ ~hasContent(result)
  THEN getLoadInstruction([core EXCEPT !.combined.after = <<>>, !.combined.afterFresh = TRUE])
  ELSE IF started /\ isValidSortAttribute(getLastContentSortAttribute(result))
  THEN getLoadInstruction(
         [core EXCEPT !.combined.after = getLastContentSortAttribute(result),
                      !.combined.afterFresh = TRUE])
  ELSE core

\* getAfter: the batch reaches input 1 of combineUnique when it has content
\* and its last item has a sort key; content$ has no listener before
\* combineUnique is subscribed.
getAfter(core, result) ==
  IF started /\ hasContent(result) /\ isValidSortAttribute(getLastContentSortAttribute(result))
  THEN getLoadInstruction(
         [core EXCEPT !.combined.after = getLastContentSortAttribute(result),
                      !.combined.afterFresh = TRUE])
  ELSE core

(***************************************************************************)
(* Initial state: the streams as built by getChainedLoadInstruction,       *)
(* subscribed, before any event.                                           *)
(***************************************************************************)
NoSettings ==
  [contentHeight |-> Undefined, buffer |-> Undefined, debounce |-> Undefined,
   throttle |-> Undefined]

\* History variables (they record, and never decide, what the engine does):
\*   added         sum of the quantities of the raw instructions received
\*                 while the output had not failed
\*   floorVaried   two settings values received so far differ in minQuantity
\*   lastSort      sort key of the last item of the latest non-empty batch
\*   cursorSort    the same, over the batches received once combineUnique is
\*                 subscribed whose last item has a non-empty sort key
\*   nonEmptySince a non-empty batch was received since the last instruction
\*   cursorSince   a batch counted by cursorSort was received since then
\*   suppressed    the loop emitted an instruction after the output had failed
\*   supplied      per raw setting, the value the latest settings value that
\*                 carried it gave it
\* and, in each instruction of out, surplus: the value of the fold when
\* combineUnique emitted it.
NoHistory ==
  [added |-> 0, floorVaried |-> FALSE, lastSort |-> <<>>, cursorSort |-> <<>>,
   nonEmptySince |-> FALSE, cursorSince |-> FALSE, suppressed |-> FALSE,
   supplied |-> NoSettings]

\* A debounce with nothing pending.  events, deltaY and elapsed are history:
\* the qualifying events received since the debounce last emitted or was
\* replaced, the sum of their deltaY, and the ms since the last of them.
NoDebounce == [sum |-> 0, ms |-> 0, events |-> 0, deltaY |-> 0, elapsed |-> 0]

\* No raw instruction emitted in the step, and nothing dropped in it.
NoRaw == <<>>
NoDrop == "none"

Init ==
  /\ accumulatedSettings = NoSettings
  /\ nSettings = 0
  /\ minQuantitySetting = Undefined
  /\ maxQuantitySetting = Undefined
  /\ debounced = NoDebounce
  /\ sinceThrottled = Never
  /\ lastBuffer = 0
  /\ delayed = <<>>
  /\ raw = NoRaw
  /\ dropped = NoDrop
  /\ remaining = Num(0)
  /\ combined = [quantity |-> Undefined, quantityFresh |-> FALSE,
                 after |-> <<>>, afterFresh |-> FALSE]
  /\ error = NoError
  /\ out = <<>>
  /\ emitting = FALSE
  /\ history = NoHistory
  /\ nEvents = 0

(***************************************************************************)
(* Delivery of what the loop emitted while handling one event.             *)
(***************************************************************************)
Core == [remaining |-> remaining, combined |-> combined, emitted |-> <<>>]

\* Deliver for a merged stream that would go on after its error.
DeliverAfterError(core, h) ==
  /\ remaining' = core.remaining
  /\ combined' = core.combined
  /\ history' = h
  /\ out' = out \o core.emitted
  /\ emitting' = (core.emitted # <<>>)

\* Stream.merge(invalidSettings$, loadInstructionWithMaxQuantity$): once the
\* merged stream has ended with an error its listener receives nothing more,
\* while the loop itself keeps running (the imitation still listens to it).
Deliver(core, h) ==
  /\ remaining' = core.remaining
  /\ combined' = core.combined
  /\ IF core.emitted = <<>>
     THEN /\ history' = h
          /\ out' = out
          /\ emitting' = FALSE
     ELSE IF failed
     THEN /\ history' = [h EXCEPT !.suppressed = TRUE]
          /\ out' = out
          /\ emitting' = FALSE
     ELSE /\ history' = h
          /\ out' = out \o core.emitted
          /\ emitting' = TRUE

\* What was received since the last delivered instruction: reset by the
\* first step after it.
Since ==
  IF emitting
  THEN [history EXCEPT !.nonEmptySince = FALSE, !.cursorSince = FALSE]
  ELSE history

\* A RawLoadInstruction reaches the chained engine.
RawInstruction(quantity) ==
  Deliver(getQuantityToAdd(Core, quantity),
          IF quantityIsPositive(quantity) /\ ~failed
          THEN [Since EXCEPT !.added = @ + IntOf(quantity)]
          ELSE Since)

(***************************************************************************)
(* Actions.                                                                *)
(***************************************************************************)
\* settings$ emits a settings value: what the stream graph does with it.
SettingsValue(settings) ==
  /\ nSettings' = nSettings + 1
  /\ accumulatedSettings' = accumulateSettings(accumulatedSettings, settings)
     \* timeSettings$.map(debounceAndThrottle).flatten(): a new debounce and a
     \* new throttle replace the previous ones, whatever they held.
  /\ debounced' = getScrollOrResizeDelta(debounced)
  /\ sinceThrottled' = Never
     \* getBufferDelta
  /\ LET valid == mergeAndValidateSettings(accumulatedSettings')
     IN IF bufferSettingsAreValid(valid)
        THEN /\ lastBuffer' = IntOf(valid.buffer)
             /\ delayed' = IF bufferIsGreater(computeDelta(lastBuffer, IntOf(valid.buffer)))
                           THEN Append(delayed,
                                       [deltaY |-> computeDelta(lastBuffer, IntOf(valid.buffer)),
                                        ms |-> BufferDelayMs,
                                        contentHeight |-> valid.contentHeight])
                           ELSE delayed
        ELSE UNCHANGED <<lastBuffer, delayed>>
     \* extractSettings: the floor and the ceiling of the value as received
  /\ minQuantitySetting' = settings.minQuantity
  /\ maxQuantitySetting' = settings.maxQuantity
     \* the first inner stream of applyMaxQuantity subscribes combineUnique,
     \* which receives the [] after$ starts with
  /\ combined' = IF started THEN combined
                 ELSE [combined EXCEPT !.after = <<>>, !.afterFresh = TRUE]
     \* spotInvalidSettings
  /\ error' = IF failed THEN error ELSE spotInvalidSettings(settings)
  /\ history' = [Since EXCEPT
                    !.floorVaried = @ \/ (started /\ settings.minQuantity # minQuantitySetting),
                    !.supplied = [f \in DOMAIN @ |->
                                    IF settings[f] # Undefined THEN settings[f] ELSE @[f]]]
  /\ emitting' = FALSE
  /\ raw' = NoRaw
  /\ dropped' = IF debounced.sum > 0 THEN "settings" ELSE NoDrop
  /\ UNCHANGED <<remaining, out, nEvents>>

\* settings$ emits a settings value.
Settings(settings) == nSettings < MaxSettings /\ SettingsValue(settings)

\* scroll$ or resize$ emits an event.
Motion(event) ==
  /\ nEvents < MaxEvents
  /\ nEvents' = nEvents + 1
  /\ debounced' = IF isScrollingDownOrResizingToTallerWindow(event)
                  THEN [sum |-> accumulate(debounced.sum, IntOf(event.deltaY)),
                        ms |-> IntOf(validSettings.debounce),
                        events |-> debounced.events + 1,
                        deltaY |-> debounced.deltaY + event.deltaY.halves \div 2,
                        elapsed |-> 0]
                  ELSE debounced
  /\ history' = Since
  /\ emitting' = FALSE
  /\ raw' = NoRaw
  /\ dropped' = IF isScrollingDownOrResizingToTallerWindow(event) THEN NoDrop ELSE "filter"
  /\ UNCHANGED <<accumulatedSettings, nSettings, minQuantitySetting, maxQuantitySetting,
                 sinceThrottled, lastBuffer, delayed, remaining, combined, error, out>>

\* The debounce period has elapsed: the accumulated delta goes through the
\* throttle and, if it passes, becomes a raw instruction.
DebounceFire ==
  /\ debounced.sum > 0
  /\ debounced.ms = 0
  /\ debounced' = NoDebounce
  /\ IF isThrottled(sinceThrottled, IntOf(validSettings.throttle))
     THEN /\ history' = Since
          /\ emitting' = FALSE
          /\ raw' = NoRaw
          /\ dropped' = "throttle"
          /\ UNCHANGED <<sinceThrottled, remaining, combined, out>>
     ELSE /\ sinceThrottled' = 0
          /\ dropped' = NoDrop
          /\ raw' = <<[quantity |-> applySettingToValue(validSettings.contentHeight,
                                                        debounced.sum),
                       from |-> "motion", events |-> debounced.events,
                       deltaY |-> debounced.deltaY,
                       contentHeight |-> validSettings.contentHeight]>>
          /\ RawInstruction(applySettingToValue(validSettings.contentHeight, debounced.sum))
  /\ UNCHANGED <<accumulatedSettings, nSettings, minQuantitySetting, maxQuantitySetting,
                 lastBuffer, delayed, error, nEvents>>

\* BufferFire for a buffer stream merged before the throttle instead of
\* after it: a delta released inside the window is dropped.
BufferFireThrottled ==
  /\ delayed # <<>>
  /\ Head(delayed).ms = 0
  /\ delayed' = Tail(delayed)
  /\ IF isThrottled(sinceThrottled, IntOf(validSettings.throttle))
     THEN /\ history' = Since
          /\ emitting' = FALSE
          /\ raw' = NoRaw
          /\ dropped' = "throttle"
          /\ UNCHANGED <<remaining, combined, out>>
     ELSE /\ dropped' = NoDrop
          /\ raw' = <<[quantity |-> applySettingToValue(validSettings.contentHeight,
                                                        Head(delayed).deltaY),
                       from |-> "buffer", events |-> 0, deltaY |-> Head(delayed).deltaY,
                       contentHeight |-> Head(delayed).contentHeight]>>
          /\ RawInstruction(applySettingToValue(validSettings.contentHeight,
                                                Head(delayed).deltaY))
  /\ UNCHANGED <<accumulatedSettings, nSettings, minQuantitySetting, maxQuantitySetting,
                 debounced, sinceThrottled, lastBuffer, error, nEvents>>

\* A delayed buffer delta is released and becomes a raw instruction.
BufferFire ==
  /\ delayed # <<>>
  /\ Head(delayed).ms = 0
  /\ delayed' = Tail(delayed)
  /\ dropped' = NoDrop
  /\ raw' = <<[quantity |-> applySettingToValue(validSettings.contentHeight,
                                                Head(delayed).deltaY),
               from |-> "buffer", events |-> 0, deltaY |-> Head(delayed).deltaY,
               contentHeight |-> Head(delayed).contentHeight]>>
  /\ RawInstruction(applySettingToValue(validSettings.contentHeight, Head(delayed).deltaY))
  /\ UNCHANGED <<accumulatedSettings, nSettings, minQuantitySetting, maxQuantitySetting,
                 debounced, sinceThrottled, lastBuffer, error, nEvents>>

\* content$ emits a batch.
Content(result) ==
  /\ nEvents < MaxEvents
  /\ nEvents' = nEvents + 1
  /\ LET nonEmpty == result # <<>>
         isCursor == started /\ nonEmpty /\ result[Len(result)].sort # <<>>
         h == [Since EXCEPT
                 !.nonEmptySince = @ \/ nonEmpty,
                 !.lastSort = IF nonEmpty THEN result[Len(result)].sort ELSE @,
                 !.cursorSince = @ \/ isCursor,
                 !.cursorSort = IF isCursor THEN result[Len(result)].sort ELSE @]
     IN Deliver(getAfter(Core, result), h)
  /\ raw' = NoRaw
  /\ dropped' = NoDrop
  /\ UNCHANGED <<accumulatedSettings, nSettings, minQuantitySetting, maxQuantitySetting,
                 debounced, sinceThrottled, lastBuffer, delayed, error>>

\* One tick of the clock passes; every timer that was due has fired.
Tick ==
  /\ nEvents < MaxEvents
  /\ ~(debounced.sum > 0 /\ debounced.ms = 0)
  /\ \A i \in 1..Len(delayed) : delayed[i].ms > 0
  /\ nEvents' = nEvents + 1
  /\ debounced' = [debounced EXCEPT
                      !.ms = IF @ > TickMs THEN @ - TickMs ELSE 0,
                      !.elapsed = IF debounced.events > 0 THEN @ + TickMs ELSE @]
  /\ sinceThrottled' = IF sinceThrottled + TickMs < Never THEN sinceThrottled + TickMs ELSE Never
  /\ delayed' = [i \in 1..Len(delayed) |->
                   [delayed[i] EXCEPT !.ms = IF @ > TickMs THEN @ - TickMs ELSE 0]]
  /\ history' = Since
  /\ emitting' = FALSE
  /\ raw' = NoRaw
  /\ dropped' = NoDrop
  /\ UNCHANGED <<accumulatedSettings, nSettings, minQuantitySetting, maxQuantitySetting,
                 lastBuffer, remaining, combined, error, out>>

Next ==
  \/ \E settings \in SettingsInputs : Settings(settings)
  \/ \E event \in EventInputs : Motion(event)
  \/ DebounceFire
  \/ BufferFire
  \/ \E result \in ContentInputs : Content(result)
  \/ Tick

Spec == Init /\ [][Next]_vars


(***************************************************************************)
(* Validation alone: every combination of contentHeight, minQuantity and   *)
(* maxQuantity a settings value may carry, given to the Settings action.   *)
(***************************************************************************)
ContentHeightInputs == {Undefined, NaN, Num(0 - 1), Num(0), Num(1)}
MinQuantityInputs == {Undefined, NaN, Num(0 - 1), Num(0), Num(2)}
MaxQuantityInputs == {Undefined, NaN, Num(0), Half(1), Num(1), Num(3)}

ValidationInputs ==
  {MakeSettings(c, Undefined, Undefined, Undefined, mn, mx) :
     c \in ContentHeightInputs, mn \in MinQuantityInputs, mx \in MaxQuantityInputs}

NextValidation == \E settings \in ValidationInputs : Settings(settings)

SpecValidation == Init /\ [][NextValidation]_vars

(***************************************************************************)
(* The raw engine alone: settings values as getRawLoadInstruction takes    *)
(* them, partial updates of contentHeight, buffer, debounce and throttle,   *)
(* negative values included, and no content batch.                         *)
(***************************************************************************)
RawSettings(c, b, d, t) == MakeSettings(c, b, d, t, Undefined, Undefined)

RawSettingsInputs ==
  {RawSettings(Num(1), Undefined, Undefined, Undefined),
   RawSettings(Num(2), Undefined, Undefined, Undefined),
   RawSettings(Num(0 - 1), Undefined, Undefined, Undefined),
   RawSettings(Undefined, Num(1), Undefined, Undefined),
   RawSettings(Undefined, Num(3), Undefined, Undefined),
   RawSettings(Undefined, Num(0 - 1), Undefined, Undefined),
   RawSettings(Undefined, Undefined, Num(TickMs), Undefined),
   RawSettings(Undefined, Undefined, Num(0 - TickMs), Undefined),
   RawSettings(Undefined, Undefined, Undefined, Num(TickMs)),
   RawSettings(Undefined, Undefined, Undefined, Num(0 - TickMs)),
   RawSettings(Num(1), Num(1), Undefined, Undefined),
   RawSettings(Num(2), Num(3), Undefined, Undefined),
   RawSettings(Num(1), Undefined, Num(TickMs), Undefined),
   RawSettings(Num(1), Undefined, Undefined, Num(TickMs))}

NextRaw ==
  \/ \E settings \in RawSettingsInputs : Settings(settings)
  \/ \E event \in EventInputs : Motion(event)
  \/ DebounceFire
  \/ BufferFire
  \/ Tick

SpecRaw == Init /\ [][NextRaw]_vars

(***************************************************************************)
(* The buffer alone: settings values that carry a buffer, with or without  *)
(* a floor and a ceiling, and neither motion event nor content batch.       *)
(***************************************************************************)
BufferSettingsInputs ==
  {MakeSettings(Num(1), Num(2), Undefined, Undefined, Undefined, Undefined),
   MakeSettings(Num(2), Num(3), Undefined, Undefined, Undefined, Undefined),
   MakeSettings(Num(1), Num(3), Undefined, Undefined, Undefined, Undefined),
   MakeSettings(Num(1), Num(2), Undefined, Undefined, Num(3), Undefined),
   MakeSettings(Num(1), Num(2), Undefined, Undefined, Undefined, Num(1)),
   MakeSettings(Num(1), Num(2), Undefined, Undefined, Num(2), Num(2)),
   MakeSettings(Num(1), Num(2), Undefined, Undefined, Num(3), Num(1)),
   MakeSettings(Num(1), Undefined, Undefined, Undefined, Undefined, Undefined)}

NextBuffer ==
  \/ \E settings \in BufferSettingsInputs : Settings(settings)
  \/ BufferFire
  \/ Tick

SpecBuffer == Init /\ [][NextBuffer]_vars

(***************************************************************************)
(* The example of the README: minQuantity 20, maxQuantity 50, raw          *)
(* instructions of quantity 15 (deltaY 15 over a contentHeight of 1) and   *)
(* the batches that the successful requests return.                        *)
(***************************************************************************)
ExampleSettingsInputs ==
  {MakeSettings(Num(1), Undefined, Undefined, Undefined, Num(20), Num(50)),
   MakeSettings(Num(1), Undefined, Undefined, Undefined, Undefined, Undefined)}

ExampleEventInputs == {[deltaY |-> Num(15)]}

ExampleContentInputs == {<<[sort |-> <<k>>]>> : k \in 1..MaxKey}

NextExample ==
  \/ \E settings \in ExampleSettingsInputs : Settings(settings)
  \/ \E event \in ExampleEventInputs : Motion(event)
  \/ DebounceFire
  \/ \E result \in ExampleContentInputs : Content(result)
  \/ Tick

SpecExample == Init /\ [][NextExample]_vars

(***************************************************************************)
(* A floor that comes and goes: three settings values, with or without a   *)
(* floor or a ceiling, events of one or two items, and the batches that    *)
(* do or do not move the cursor.                                            *)
(***************************************************************************)
MaxFloorSettings == 3

FloorSettingsInputs ==
  {MakeSettings(Num(1), Undefined, Undefined, Undefined, Undefined, Undefined),
   MakeSettings(Num(1), Undefined, Undefined, Undefined, Undefined, Num(1)),
   MakeSettings(Num(1), Undefined, Undefined, Undefined, Num(2), Undefined),
   MakeSettings(Num(1), Undefined, Undefined, Undefined, Num(3), Undefined)}

FloorEventInputs == {[deltaY |-> Num(1)], [deltaY |-> Num(2)]}

FloorContentInputs == {<<[sort |-> <<1>>]>>, <<[sort |-> <<>>]>>}

FloorSettings(settings) == nSettings < MaxFloorSettings /\ SettingsValue(settings)

NextFloor ==
  \/ \E settings \in FloorSettingsInputs : FloorSettings(settings)
  \/ \E event \in FloorEventInputs : Motion(event)
  \/ DebounceFire
  \/ \E result \in FloorContentInputs : Content(result)
  \/ Tick

SpecFloor == Init /\ [][NextFloor]_vars

(***************************************************************************)
(* Properties.                                                             *)
(***************************************************************************)
\* The instruction delivered last, and what the listener reads of an
\* instruction (surplus is history).
Last == out[Len(out)]
Previous == out[Len(out) - 1]
Pair(instruction) == <<instruction.quantity, instruction.after>>

RECURSIVE SumQuantities(_)
SumQuantities(instructions) ==
  IF instructions = <<>> THEN Num(0)
  ELSE Plus(Head(instructions).quantity, SumQuantities(Tail(instructions)))

\* No settings value received so far carried a minQuantity.
NoFloorEver == ~history.floorVaried /\ minQuantitySetting = Undefined

\* C1 - Between two consecutive delivered instructions a non-empty content
\* batch arrives: an instruction that is not the first is only delivered when
\* a non-empty batch was received since the previous one.
C1_BatchBetweenInstructions ==
  emitting /\ Len(out) >= 2 => history.nonEmptySince

\* A second instruction is delivered, out of a surplus larger than what the
\* first one took.
C1_Witness ==
  /\ emitting
  /\ Len(out) >= 2
  /\ history.nonEmptySince
  /\ Gt(Previous.surplus, Previous.quantity)

\* C2 - While every settings value carries the same minQuantity m, every
\* instruction is delivered from a surplus of at least m (so none is while the
\* surplus is below m).
C2_FloorHolds ==
  emitting /\ ~history.floorVaried /\ minQuantitySetting # Undefined
    => Ge(Last.surplus, minQuantitySetting)

\* Under a floor of 2 carried by two settings values, an instruction is
\* delivered from a surplus of exactly 2.
C2_Witness ==
  /\ emitting
  /\ nSettings = 2
  /\ ~history.floorVaried
  /\ minQuantitySetting = Num(2)
  /\ Last.surplus = Num(2)

\* C3 - With maxQuantity set, the quantity of every delivered instruction is
\* min(pending surplus, maxQuantity), hence at most maxQuantity.
C3_QuantityIsCappedSurplus ==
  emitting /\ maxQuantitySetting # Undefined
    => /\ Last.quantity = MathMin(Last.surplus, maxQuantitySetting)
       /\ Le(Last.quantity, maxQuantitySetting)

\* C4 - Every delivered instruction has an integer quantity of at least 1.
C4_IntegerQuantity ==
  \A i \in 1..Len(out) : IsInteger(out[i].quantity) /\ Ge(out[i].quantity, Num(1))

\* C5 - With maxQuantity M set and no settings value ever carrying a
\* minQuantity: every delivered quantity is min(surplus, M); an instruction
\* after the first needs a batch that moved the cursor (non-empty, its last
\* item with a non-empty sort key) since the previous one, and such a batch
\* never leaves a positive surplus waiting, so each one releases exactly one
\* chunk; and the surplus is what was added minus what was delivered, so the
\* chunks of a drained surplus sum to it.
C5_CeilingConservation ==
  ~failed /\ NoFloorEver /\ maxQuantitySetting # Undefined
    => /\ emitting => /\ Last.quantity = MathMin(Last.surplus, maxQuantitySetting)
                      /\ Le(Last.quantity, maxQuantitySetting)
       /\ emitting /\ Len(out) >= 2 => history.cursorSince
       /\ history.cursorSince /\ ~emitting => ~Gt(remaining, Num(0))
       /\ remaining = Plus(Num(history.added), Negate(SumQuantities(out)))

\* A surplus of 3 under a ceiling below it has been drained in three chunks.
C5_Witness ==
  /\ emitting
  /\ NoFloorEver
  /\ maxQuantitySetting # Undefined
  /\ Len(out) = 3
  /\ history.added = 3
  /\ out[1].surplus = Num(3)
  /\ remaining = Num(0)

\* C5 as stated: the same, with any non-empty batch taken to move the cursor.
C5_AnyNonEmptyBatch ==
  ~failed /\ NoFloorEver /\ maxQuantitySetting # Undefined
    => /\ emitting => /\ Last.quantity = MathMin(Last.surplus, maxQuantitySetting)
                      /\ Le(Last.quantity, maxQuantitySetting)
       /\ emitting /\ Len(out) >= 2 => history.nonEmptySince
       /\ history.nonEmptySince /\ ~emitting /\ started => ~Gt(remaining, Num(0))
       /\ remaining = Plus(Num(history.added), Negate(SumQuantities(out)))

\* C6 - The `after` of a delivered instruction is the sort key of the last
\* item of the latest batch, among those received after the first settings
\* value, that is non-empty and whose last item has a non-empty sort key; the
\* empty tuple when there is none.
C6_AfterIsLatestCursor ==
  emitting => Last.after = history.cursorSort

\* An instruction carries a cursor that is not the sort key of the last item
\* of the latest non-empty batch.
C6_Witness ==
  emitting /\ Last.after # <<>> /\ history.lastSort # Last.after

\* C6 as stated: `after` is the sort key of the last item of the latest
\* non-empty batch received, the empty tuple when there is none.
C6_AfterIsLatestNonEmptyBatch ==
  emitting => Last.after = history.lastSort

\* The eight rules of validation, as conditions on a settings value.
Rules == 1..8
Violates(rule, settings) ==
  CASE rule = 1 -> settings.contentHeight = Undefined
    [] rule = 2 -> settings.contentHeight = NaN
    [] rule = 3 -> Le(settings.contentHeight, Num(0))
    [] rule = 4 -> settings.minQuantity = NaN
    [] rule = 5 -> Lt(settings.minQuantity, Num(0))
    [] rule = 6 -> settings.maxQuantity = NaN
    [] rule = 7 -> Lt(settings.maxQuantity, Num(1))
    [] rule = 8 -> Gt(settings.minQuantity, settings.maxQuantity)

\* The condition the output stream fails with, per rule.
Condition(rule) ==
  CASE rule = 1 -> "contentHeight must be defined"
    [] rule = 2 -> "contentHeight must be a number"
    [] rule = 3 -> "contentHeight must be greater than 0"
    [] rule = 4 -> "minQuantity must be a number"
    [] rule = 5 -> "minQuantity must be greater than or equal to 0"
    [] rule = 6 -> "maxQuantity must be a number"
    [] rule = 7 -> "maxQuantity must be greater than or equal to 1"
    [] rule = 8 -> "minQuantity must be lesser than or equal to maxQuantity"

Violated(settings) == {rule \in Rules : Violates(rule, settings)}
FirstViolated(settings) ==
  CHOOSE rule \in Violated(settings) : \A other \in Violated(settings) : rule <= other

\* C7 - A settings value that violates one of the eight rules makes the output
\* stream fail, with the condition of that rule when it is the only one
\* violated, the eight conditions being distinct; a settings value that
\* violates none raises no error.
C7_DistinctConditions ==
  [][~failed =>
       \A settings \in ValidationInputs :
         Settings(settings)
           => /\ Violated(settings) = {} <=> error' = NoError
              /\ \A rule \in Rules : Violated(settings) = {rule} => error' = Condition(rule)
              /\ \A rule, other \in Rules : Condition(rule) = Condition(other) => rule = other
    ]_vars

\* The stream failed on a settings value whose only fault is a minQuantity
\* above its maxQuantity.
C7_Witness ==
  /\ nSettings = 1
  /\ accumulatedSettings.contentHeight = Num(1)
  /\ minQuantitySetting = Num(2)
  /\ maxQuantitySetting = Num(1)
  /\ error = Condition(8)

\* C8 - When a settings value violates several rules, the stream fails with
\* the condition of the first one in the order of the rules; an invalid
\* contentHeight is reported rather than any error of the quantities.
C8_FirstFailingRule ==
  [][~failed =>
       \A settings \in ValidationInputs :
         Settings(settings) /\ Violated(settings) # {}
           => /\ error' = Condition(FirstViolated(settings))
              /\ Violated(settings) \cap {1, 2, 3} # {}
                   => error' \in {Condition(1), Condition(2), Condition(3)}
    ]_vars

\* The stream failed on a first settings value with a contentHeight that is
\* no number, a negative minQuantity and a maxQuantity below 1.
C8_Witness ==
  /\ nSettings = 1
  /\ accumulatedSettings.contentHeight = NaN
  /\ minQuantitySetting = Num(0 - 1)
  /\ maxQuantitySetting = Num(0)
  /\ error = Condition(2)

\* C9 - Once the output stream has failed it stays failed and its listener
\* receives no instruction any more; the instructions it received are what
\* they were.
C9_NoInstructionAfterError ==
  [][failed => failed' /\ out' = out]_vars

\* After instructions were delivered the stream failed, and the loop emitted
\* an instruction that was not delivered.
C9_Witness ==
  failed /\ out # <<>> /\ history.suppressed

\* C10 - Two instructions delivered one after the other carry the same cursor
\* and the same quantity only when, between them, a batch arrived whose last
\* item has that same sort key.
C10_RepeatOnlyOnRepeatedCursor ==
  emitting /\ Len(out) >= 2 /\ Pair(Last) = Pair(Previous)
    => history.cursorSince /\ history.cursorSort = Last.after

\* Two instructions delivered one after the other are the same.
C10_Witness ==
  emitting /\ Len(out) >= 2 /\ Pair(Last) = Pair(Previous)

\* C10 as stated: no two instructions delivered one after the other carry the
\* same cursor and the same quantity.
C10_NoRepeat ==
  Len(out) >= 2 => Pair(Last) # Pair(Previous)

\* C11 - After an instruction has been delivered, the gate holds back every
\* candidate until the cursor advances, whether or not the surplus changed: a
\* step by which a raw instruction adds to the surplus delivers an instruction
\* only if a batch that moved the cursor arrived since the last delivered one.
C11_FreshCursorGate ==
  [][~failed /\ out # <<>> /\ ~Since.cursorSince /\ (DebounceFire \/ BufferFire)
       => out' = out]_vars

\* After an instruction the surplus has grown, it meets the floor and makes a
\* pair unlike the delivered one, no batch has moved the cursor, and nothing
\* was delivered.
C11_Witness ==
  /\ ~failed
  /\ ~emitting
  /\ out # <<>>
  /\ ~history.cursorSince
  /\ Gt(remaining, Plus(Last.surplus, Negate(Last.quantity)))
  /\ filterStreamWithMinQuantity(minQuantitySetting, remaining)
  /\ <<capStreamWithMaxQuantity(maxQuantitySetting, remaining), combined.after>> # Pair(Last)

\* C11 as stated: a candidate is held back only when its (quantity, cursor)
\* pair is the pair delivered last; a raw instruction that makes the surplus
\* grow without an instruction being delivered leaves a surplus below the
\* floor or a pair identical to the last one.
C11_DistinctPairGate ==
  [][~failed /\ out # <<>> /\ (DebounceFire \/ BufferFire)
       /\ Gt(remaining', remaining) /\ ~emitting'
       => \/ ~filterStreamWithMinQuantity(minQuantitySetting, remaining')
          \/ <<capStreamWithMaxQuantity(maxQuantitySetting, remaining'), combined'.after>>
               = Pair(Last)]_vars

\* C12 - Validation reads each settings value as received, not the merge of
\* the values received so far: after a valid contentHeight has been supplied,
\* a settings value that carries no contentHeight makes the output stream fail
\* with "contentHeight must be defined".
C12_ValidatedAsReceived ==
  [][~failed /\ Gt(accumulatedSettings.contentHeight, Num(0)) =>
       \A settings \in SettingsInputs :
         Settings(settings) /\ settings.contentHeight = Undefined
           => error' = Condition(1)
    ]_vars

\* The stream failed for want of a contentHeight on its second settings value,
\* while the raw engine still holds the contentHeight of the first.
C12_Witness ==
  /\ nSettings = 2
  /\ error = Condition(1)
  /\ accumulatedSettings.contentHeight = Num(1)
  /\ accumulatedSettings.throttle = Num(TickMs)

\* C12 as stated: after a valid contentHeight has been supplied, a settings
\* value that carries no contentHeight is validated with the retained one and
\* raises no missing-contentHeight error.
C12_ValidatedAsMerged ==
  [][~failed /\ Gt(accumulatedSettings.contentHeight, Num(0)) =>
       \A settings \in SettingsInputs :
         Settings(settings) /\ settings.contentHeight = Undefined
           => error' # Condition(1)
    ]_vars

\* C14 - When the settings value in effect carries no maxQuantity, no ceiling
\* applies: a delivered instruction carries the whole pending surplus.
C14_WholeSurplusWithoutCeiling ==
  emitting /\ maxQuantitySetting = Undefined => Last.quantity = Last.surplus

\* The raw settings, and the delta the raw instruction of a step was computed
\* from: the deltas of the events the debounce held, or the buffer delta
\* released.
RawFields == DOMAIN NoSettings
EmittedDelta == IF DebounceFire THEN debounced.deltaY ELSE Head(delayed).deltaY

\* C13 - The raw engine merges the settings values it receives: after a
\* settings value, a field it does not carry keeps the value it had and a
\* field it carries takes the new one; and a raw instruction is converted with
\* the contentHeight supplied last, whatever the settings values received since
\* then carried.
C13_SettingsAccumulate ==
  [][/\ nSettings' # nSettings =>
          \A settings \in RawSettingsInputs :
            Settings(settings) =>
              \A f \in RawFields :
                accumulatedSettings'[f] =
                  IF settings[f] = Undefined THEN accumulatedSettings[f] ELSE settings[f]
     /\ raw' # NoRaw /\ Gt(history.supplied.contentHeight, Num(0)) =>
          raw'[1].quantity = Num(CeilDiv(EmittedDelta, history.supplied.contentHeight))
    ]_vars

\* After a contentHeight of 2 and a throttle, each supplied by a settings
\* value of its own, a scroll of 3 px makes a raw instruction of 2 items.
C13_Witness ==
  /\ nSettings = 2
  /\ history.supplied = [contentHeight |-> Num(2), buffer |-> Undefined,
                         debounce |-> Undefined, throttle |-> Num(TickMs)]
  /\ raw # NoRaw
  /\ raw[1].quantity = Num(2)

\* C15 - A negative contentHeight, buffer, debounce or throttle makes the raw
\* engine use the default of that field, 0, whatever value the field had
\* before: under a negative contentHeight a raw instruction carries no
\* quantity, and under a negative debounce a delta is emitted at the instant
\* of its event.
C15_NegativeIsDefault ==
  /\ \A f \in RawFields :
       Lt(history.supplied[f], Num(0)) => validSettings[f] = DEFAULT_SETTINGS[f]
  /\ raw # NoRaw /\ Lt(history.supplied.contentHeight, Num(0))
       => raw[1].quantity = Undefined
  /\ debounced.events > 0 /\ Lt(history.supplied.debounce, Num(0)) => debounced.ms = 0

\* A buffer delta that entered the delay under a valid contentHeight is
\* emitted after a negative contentHeight was supplied: the stream goes on,
\* and the instruction carries no quantity.
C15_Witness ==
  /\ Lt(history.supplied.contentHeight, Num(0))
  /\ raw # NoRaw
  /\ raw[1].from = "buffer"
  /\ raw[1].quantity = Undefined

\* C16 - A scroll or resize event whose deltaY is 0, negative or absent
\* changes nothing in the engine: the debounce keeps its sum and its timer,
\* the throttle, the buffer deltas, the surplus and the gate are as they were,
\* no raw instruction is emitted, nothing is delivered and nothing fails.
C16_NonQualifyingEventIgnored ==
  [][nEvents' # nEvents =>
       \A event \in EventInputs :
         Motion(event) /\ ~Gt(event.deltaY, Num(0))
           => /\ raw' = NoRaw
              /\ UNCHANGED <<accumulatedSettings, minQuantitySetting, maxQuantitySetting,
                             debounced, sinceThrottled, lastBuffer, delayed, remaining,
                             combined, error, out>>
    ]_vars

\* While the debounce holds the deltas of two events and its timer runs, an
\* event with no positive deltaY has just been dropped.
C16_Witness ==
  /\ dropped = "filter"
  /\ debounced.events = 2
  /\ debounced.ms = TickMs
  /\ raw = NoRaw

\* The quantity of a raw instruction for a delta, as the documentation gives
\* it: ceil(deltaY / contentHeight) under a contentHeight > 0, none otherwise.
ExpectedQuantity(deltaY, contentHeight) ==
  IF Gt(contentHeight, Num(0)) THEN Num(CeilDiv(deltaY, contentHeight)) ELSE Undefined

NoDebounceNoThrottle ==
  validSettings.debounce = Num(0) /\ validSettings.throttle = Num(0)

\* C17 - With debounce = throttle = 0, the qualifying events received at one
\* instant are emitted at that instant (time does not pass while one is
\* pending) as one raw instruction, computed from the sum of their deltaY
\* with the current contentHeight: quantity ceil(sum / contentHeight), at least
\* 1, or no quantity when contentHeight is not > 0.  A qualifying event alone
\* at its instant therefore yields exactly one instruction, of its own deltaY;
\* one that arrives at an instant where an instruction was already emitted
\* yields none.
C17_OneInstructionPerInstant ==
  [][NoDebounceNoThrottle =>
       /\ debounced.events > 0 => ~Tick
       /\ DebounceFire /\ sinceThrottled > 0 =>
            /\ raw' # NoRaw
            /\ raw'[1].quantity = ExpectedQuantity(debounced.deltaY, validSettings.contentHeight)
            /\ raw'[1].quantity # Undefined => Ge(raw'[1].quantity, Num(1))
       /\ DebounceFire /\ sinceThrottled = 0 => raw' = NoRaw
    ]_vars

\* Under a contentHeight of 2 and no debounce and no throttle, a single event
\* of 3 px has made a raw instruction of 2 items.
C17_Witness ==
  /\ NoDebounceNoThrottle
  /\ validSettings.contentHeight = Num(2)
  /\ raw # NoRaw
  /\ raw[1].from = "motion"
  /\ raw[1].events = 1
  /\ raw[1].deltaY = 3
  /\ raw[1].quantity = Num(2)

\* C17 as stated: with debounce = throttle = 0, each qualifying event yields
\* exactly one raw instruction, of its own deltaY: the debounce never emits
\* for more than one event, and each of its emissions becomes an instruction.
C17_OneInstructionPerEvent ==
  [][NoDebounceNoThrottle /\ DebounceFire =>
       /\ debounced.events = 1
       /\ raw' # NoRaw
       /\ raw'[1].quantity = ExpectedQuantity(debounced.deltaY, validSettings.contentHeight)
    ]_vars

\* C18 - Under a debounce d > 0 and no throttle, the qualifying events that
\* follow one another within d make one raw instruction: the debounce emits
\* only when d has passed since the last of them, time does not pass beyond
\* that without it emitting, and what it emits becomes a raw instruction
\* computed from the sum of their deltaY (quantity ceil(sum / contentHeight)).
C18_BurstIsOneInstruction ==
  [][Gt(validSettings.debounce, Num(0)) /\ validSettings.throttle = Num(0) =>
       /\ DebounceFire =>
            /\ debounced.elapsed = IntOf(validSettings.debounce)
            /\ raw' # NoRaw
            /\ raw'[1].quantity = ExpectedQuantity(debounced.deltaY, validSettings.contentHeight)
       /\ Tick => debounced.elapsed < IntOf(validSettings.debounce)
    ]_vars

\* Under a debounce of one tick and a contentHeight of 1, two events of 5 px
\* in all have made one raw instruction of 5 items.
C18_Witness ==
  /\ validSettings.debounce = Num(TickMs)
  /\ validSettings.throttle = Num(0)
  /\ validSettings.contentHeight = Num(1)
  /\ raw # NoRaw
  /\ raw[1].from = "motion"
  /\ raw[1].events = 2
  /\ raw[1].deltaY = 5
  /\ raw[1].quantity = Num(5)

\* C19 - Under a throttle t > 0, a delta that leaves the debounce within t ms
\* of the last motion-driven raw instruction (t ms after it included) makes no
\* instruction and is not kept: the debounce is left empty.  A delta that
\* leaves the debounce later than that, or before any instruction since the
\* settings value in effect, becomes a raw instruction in that same step,
\* computed from that delta alone.
C19_ThrottleWindow ==
  [][Gt(validSettings.throttle, Num(0)) /\ DebounceFire =>
       /\ debounced' = NoDebounce
       /\ sinceThrottled <= IntOf(validSettings.throttle) => raw' = NoRaw
       /\ sinceThrottled > IntOf(validSettings.throttle) =>
            /\ raw' # NoRaw
            /\ raw'[1].quantity = ExpectedQuantity(debounced.deltaY, validSettings.contentHeight)
    ]_vars

\* Under a throttle of one tick, a delta that left the debounce exactly one
\* tick after a raw instruction has been discarded.
C19_Witness ==
  /\ validSettings.throttle = Num(TickMs)
  /\ sinceThrottled = TickMs
  /\ dropped = "throttle"
  /\ debounced = NoDebounce
  /\ raw = NoRaw

\* What a settings value does to the buffer deltas in flight: when the merged
\* settings have contentHeight > 0 and buffer > 0 and the buffer is above the
\* previous such buffer (0 when there is none), one delta of that increase
\* enters the delay; otherwise none does.
BufferIncreaseEntersDelay ==
  nSettings' # nSettings =>
    LET contentHeight == history'.supplied.contentHeight
        buffer == history'.supplied.buffer
    IN IF Gt(contentHeight, Num(0)) /\ Gt(buffer, Num(0)) /\ IntOf(buffer) > lastBuffer
       THEN /\ Len(delayed') = Len(delayed) + 1
            /\ SubSeq(delayed', 1, Len(delayed)) = delayed
            /\ delayed'[Len(delayed')].deltaY = IntOf(buffer) - lastBuffer
            /\ delayed'[Len(delayed')].ms = BufferDelayMs
       ELSE delayed' = delayed

\* C20 - Over the merged settings values that have contentHeight > 0 and
\* buffer > 0, each strict increase of buffer puts one delta in the delay and
\* an unchanged or decreased buffer, or a buffer received while contentHeight
\* is not configured, puts none; 20 ms later, and no later, each delta is
\* emitted as one raw instruction, converted with the contentHeight in effect
\* at that moment: quantity ceil(increase / contentHeight), or no quantity if
\* contentHeight is by then not > 0.
C20_BufferIncrease ==
  [][/\ BufferIncreaseEntersDelay
     /\ BufferFire =>
          /\ raw' # NoRaw
          /\ raw'[1].quantity =
               ExpectedQuantity(Head(delayed).deltaY, validSettings.contentHeight)
          /\ delayed' = Tail(delayed)
     /\ Tick => \A i \in 1..Len(delayed) : delayed[i].ms > 0
    ]_vars

\* A buffer increase of 3 px made under a contentHeight of 2 has been emitted
\* under a contentHeight of 1, as a raw instruction of 3 items.
C20_Witness ==
  /\ raw # NoRaw
  /\ raw[1].from = "buffer"
  /\ raw[1].deltaY = 3
  /\ raw[1].contentHeight = Num(2)
  /\ validSettings.contentHeight = Num(1)
  /\ raw[1].quantity = Num(3)

\* C20 as stated: the same, the raw instruction of an increase carrying
\* ceil(increase / contentHeight) for the contentHeight of the settings value
\* that brought the increase.
C20_BufferIncreaseOwnContentHeight ==
  [][/\ BufferIncreaseEntersDelay
     /\ BufferFire =>
          /\ raw' # NoRaw
          /\ raw'[1].quantity =
               ExpectedQuantity(Head(delayed).deltaY, Head(delayed).contentHeight)
          /\ delayed' = Tail(delayed)
     /\ Tick => \A i \in 1..Len(delayed) : delayed[i].ms > 0
    ]_vars


\* C21: the first settings value, valid, with contentHeight h > 0 and buffer
\* b > 0, and neither motion event nor content batch: nothing is delivered
\* while the buffer delta is delayed (one tick), and once it is released
\* exactly one instruction is, {quantity: ceil(b / h) capped by the ceiling
\* of that value, after: []}, when ceil(b / h) reaches its floor, and none
\* when it does not; nothing more is delivered afterwards.
FirstBufferQuantity ==
  ExpectedQuantity(IntOf(history.supplied.buffer), history.supplied.contentHeight)

FirstSettingsWithBuffer ==
  /\ nSettings = 1
  /\ ~failed
  /\ Gt(history.supplied.contentHeight, Num(0))
  /\ Gt(history.supplied.buffer, Num(0))

FirstBufferAlone ==
  FirstSettingsWithBuffer =>
    IF delayed # <<>>
    THEN out = <<>> /\ Len(delayed) = 1
    ELSE IF filterStreamWithMinQuantity(minQuantitySetting, FirstBufferQuantity)
    THEN /\ Len(out) = 1
         /\ Pair(out[1]) = <<capStreamWithMaxQuantity(maxQuantitySetting, FirstBufferQuantity),
                             <<>>>>
    ELSE out = <<>>

\* The delayed delta is due at the first tick after the settings value, and
\* that tick is the only one that passes before it is released.
FirstBufferOneTickLater ==
  nSettings = 1 /\ delayed # <<>> /\ Tick =>
    Head(delayed).ms = BufferDelayMs /\ Head(delayed').ms = 0

C21_InitialBufferInstruction == [](FirstBufferAlone) /\ [][FirstBufferOneTickLater]_vars

C21_Witness ==
  /\ FirstSettingsWithBuffer
  /\ history.supplied.contentHeight = Num(2)
  /\ history.supplied.buffer = Num(3)
  /\ delayed = <<>>
  /\ nEvents = 3
  /\ Len(out) = 1
  /\ Pair(out[1]) = <<Num(2), <<>>>>

\* C21 as stated: ceil(b / h) whatever floor and ceiling the value carries.
C21_AlwaysWholeBuffer ==
  FirstSettingsWithBuffer =>
    IF delayed # <<>>
    THEN out = <<>>
    ELSE Len(out) = 1 /\ Pair(out[1]) = <<FirstBufferQuantity, <<>>>>


\* C22: the buffer of the very first settings value is diffed against the 0
\* the buffer stream starts with: when that value has contentHeight > 0 and
\* buffer > 0 the whole buffer enters the delay, and it is released as one
\* raw instruction for ceil(buffer / contentHeight).
FirstBufferEntersDelay ==
  nSettings = 0 /\ nSettings' = 1 =>
    delayed' = IF bufferSettingsAreValid(validSettings')
               THEN <<[deltaY |-> IntOf(validSettings'.buffer), ms |-> BufferDelayMs,
                       contentHeight |-> validSettings'.contentHeight]>>
               ELSE <<>>

FirstBufferReleased ==
  nSettings = 1 /\ BufferFire =>
    /\ raw' # NoRaw
    /\ raw'[1].from = "buffer"
    /\ raw'[1].deltaY = IntOf(history.supplied.buffer)
    /\ raw'[1].quantity = FirstBufferQuantity

C22_FirstBufferCounts == [][FirstBufferEntersDelay /\ FirstBufferReleased]_vars

C22_Witness ==
  /\ nSettings = 1
  /\ history.supplied.buffer = Num(3)
  /\ raw # NoRaw
  /\ raw[1].from = "buffer"
  /\ raw[1].deltaY = 3
  /\ raw[1].quantity = Num(2)

\* C22 as stated: the first settings value yields no buffer instruction.
C22_FirstBufferIgnored == nSettings = 1 => delayed = <<>> /\ raw = NoRaw


\* C23: a settings value replaces the debounce: the events it was holding,
\* those received at that same instant included, are lost, and no raw
\* instruction is emitted for them; a delta that leaves the debounce is
\* made of events received after the latest settings value only and is
\* converted with the contentHeight of the settings accumulated so far.
PendingEventsLost ==
  nSettings' # nSettings /\ debounced.events > 0 =>
    debounced' = NoDebounce /\ raw' = NoRaw /\ dropped' = "settings"

UnderLatestSettings ==
  DebounceFire /\ raw' # NoRaw =>
    /\ raw'[1].events = debounced.events
    /\ raw'[1].quantity = ExpectedQuantity(debounced.deltaY,
                                           mergeAndValidateSettings(history.supplied).contentHeight)

C23_SameInstantEventLost == [][PendingEventsLost /\ UnderLatestSettings]_vars

C23_Witness ==
  /\ nSettings = 2
  /\ nEvents = 1
  /\ dropped = "settings"
  /\ debounced = NoDebounce
  /\ raw = NoRaw

\* C23 as stated: an event received at the instant of a settings value is
\* not lost.
C23_SameInstantEventKept ==
  [][nSettings' # nSettings /\ debounced.events > 0 /\ debounced.elapsed = 0 =>
       debounced'.events = debounced.events]_vars


\* The loop run over a sequence of inputs, each a raw quantity or a batch,
\* from a given state of the loop: the instructions it emits are in emitted.
RawInput(quantity) == [quantity |-> quantity, result |-> <<>>]
BatchInput(result) == [quantity |-> Undefined, result |-> result]

RECURSIVE Run(_, _)
Run(core, inputs) ==
  IF inputs = <<>> THEN core
  ELSE Run(IF Head(inputs).quantity # Undefined
           THEN getQuantityToAdd(core, Head(inputs).quantity)
           ELSE getAfter(core, Head(inputs).result),
           Tail(inputs))

Quantities(instructions) == [i \in 1..Len(instructions) |-> instructions[i].quantity]

\* The inputs of the README's example: six raw quantities of 15, two
\* batches, a seventh raw quantity of 15.
ReadmeInputs ==
  [i \in 1..6 |-> RawInput(Num(15))]
    \o <<BatchInput(<<[sort |-> <<1>>]>>), BatchInput(<<[sort |-> <<2>>]>>), RawInput(Num(15))>>

\* Six raw quantities of 15 with the two batches at positions 6 and 8.
SixDeltasInputs ==
  [i \in 1..5 |-> RawInput(Num(15))]
    \o <<BatchInput(<<[sort |-> <<1>>]>>), RawInput(Num(15)), BatchInput(<<[sort |-> <<2>>]>>)>>

ReadmeSettings ==
  /\ nSettings = 1
  /\ ~failed
  /\ minQuantitySetting = Num(20)
  /\ maxQuantitySetting = Num(50)
  /\ validSettings.contentHeight = Num(1)

\* Nothing received yet but the settings value.
ReadmeStart ==
  /\ ReadmeSettings
  /\ out = <<>>
  /\ remaining = Num(0)
  /\ combined = [quantity |-> Undefined, quantityFresh |-> FALSE,
                 after |-> <<>>, afterFresh |-> TRUE]

\* The first two raw quantities received, and the instruction for 30 emitted.
ReadmeAfterTwo ==
  /\ ReadmeSettings
  /\ history.added = 30
  /\ Len(out) = 1
  /\ Last.quantity = Num(30)
  /\ ~combined.afterFresh

\* C24: with minQuantity = 20, maxQuantity = 50 and contentHeight = 1, seven
\* raw quantities of 15 with two batches between the sixth and the seventh
\* produce instructions of quantities 30, 50, 25 in that order, with cursors
\* [], the first batch's and the second's, and leave a surplus of 0; from the
\* state reached once the first two are received and 30 is emitted, the rest
\* of the inputs produce 50 and 25.
C24_ReadmeExample ==
  /\ ReadmeStart =>
       LET end == Run(Core, ReadmeInputs)
       IN /\ Quantities(end.emitted) = <<Num(30), Num(50), Num(25)>>
          /\ [i \in 1..3 |-> end.emitted[i].after] = <<<<>>, <<1>>, <<2>>>>
          /\ end.remaining = Num(0)
  /\ ReadmeAfterTwo =>
       LET end == Run(Core, SubSeq(ReadmeInputs, 3, Len(ReadmeInputs)))
       IN /\ Quantities(end.emitted) = <<Num(50), Num(25)>>
          /\ end.remaining = Num(0)

C24_Witness ==
  /\ ReadmeAfterTwo
  /\ emitting
  /\ nEvents = 3
  /\ Quantities(Run(Core, SubSeq(ReadmeInputs, 3, Len(ReadmeInputs))).emitted)
       = <<Num(50), Num(25)>>

\* C24 as stated: six raw quantities of 15 and two batches, at positions 6
\* and 8, produce 30, 50, 25 and leave nothing.
C24_SixDeltas ==
  ReadmeStart =>
    LET end == Run(Core, SixDeltasInputs)
    IN /\ Quantities(end.emitted) = <<Num(30), Num(50), Num(25)>>
       /\ end.remaining = Num(0)


\* C25: while the output has not failed, the pending surplus is the sum of
\* the sized raw quantities received so far minus the sum of the quantities
\* of the instructions emitted so far, at every moment: the quantity of an
\* instruction, capped by the ceiling, is taken off as it is emitted, before
\* any batch answers it.
C25_SurplusIsReceivedMinusEmitted ==
  ~failed =>
    /\ remaining = Plus(Num(history.added), Negate(SumQuantities(out)))
    /\ (emitting => remaining = Plus(Last.surplus, Negate(Last.quantity)))

C25_Witness ==
  /\ ~failed
  /\ emitting
  /\ maxQuantitySetting = Num(1)
  /\ history.added = 3
  /\ Len(out) = 2
  /\ remaining = Num(1)


\* C26: the pending surplus is never negative, whatever raw quantities,
\* batches, instructions and settings values came before, a change of
\* minQuantity or maxQuantity while a surplus is waiting included, and
\* whether or not the output has failed.
C26_SurplusNeverNegative == IsNumber(remaining) /\ Ge(remaining, Num(0))

C26_Witness ==
  /\ history.floorVaried
  /\ emitting
  /\ Len(out) = 2
  /\ Last.surplus = Num(2)
  /\ Last.quantity = Num(2)
  /\ remaining = Num(0)


\* A step in which a sized raw quantity reaches the loop and brings the
\* surplus to at least max(1, minQuantity).
RawReachesFloor ==
  /\ raw' # NoRaw
  /\ quantityIsPositive(raw'[1].quantity)
  /\ quantityIsPositive(accumulateQuantities(remaining, raw'[1].quantity))
  /\ filterStreamWithMinQuantity(minQuantitySetting,
                                 accumulateQuantities(remaining, raw'[1].quantity))

\* C27: while the output has not failed, if no instruction was emitted yet,
\* or a batch that moved the cursor (non-empty, its last item with a
\* non-empty sort key) arrived since the last one, a raw quantity that
\* brings the surplus to at least max(1, minQuantity) is answered by an
\* instruction in that same step.
C27_EmittedAtOnce ==
  [][~failed /\ RawReachesFloor /\ (out = <<>> \/ Since.cursorSince) =>
       /\ emitting'
       /\ Len(out') = Len(out) + 1
       /\ Last'.surplus = accumulateQuantities(remaining, raw'[1].quantity)]_vars

C27_Witness ==
  /\ ~failed
  /\ emitting
  /\ raw # NoRaw
  /\ Len(out) = 2
  /\ minQuantitySetting = Num(2)
  /\ Last.surplus = Num(2)
  /\ Last.after # <<>>

\* C27 as stated: any non-empty batch since the last instruction will do.
C27_AnyNonEmptyBatch ==
  [][~failed /\ RawReachesFloor /\ (out = <<>> \/ Since.nonEmptySince) => emitting']_vars


C28_CursorBatchAnySurplus ==
  [][~failed /\ out # <<>> /\ ~Since.cursorSince /\ nEvents' # nEvents
       /\ quantityIsPositive(remaining)
       /\ filterStreamWithMinQuantity(minQuantitySetting, remaining) =>
       \A result \in ContentInputs :
          Content(result) /\ result # <<>> /\ result[Len(result)].sort # <<>> =>
            emitting']_vars


\* The last instruction was capped by the ceiling and what it left is below
\* the floor now in effect.
CappedLast == out # <<>> /\ Lt(Last.quantity, Last.surplus)

RemainderBelowFloor ==
  /\ CappedLast
  /\ quantityIsPositive(remaining)
  /\ minQuantitySetting # Undefined
  /\ Lt(remaining, minQuantitySetting)

\* The batch of a Content step moved the cursor.
CursorAdvance ==
  \E result \in ContentInputs :
     Content(result) /\ result # <<>> /\ result[Len(result)].sort # <<>>

\* Not emitted at the cursor advance: the step emits nothing and the
\* remainder stays.
RemainderWaits ==
  RemainderBelowFloor /\ nEvents' # nEvents /\ CursorAdvance =>
    ~emitting' /\ out' = out /\ remaining' = remaining

\* Emitted with the raw quantities that raise it to the floor, once the
\* cursor has advanced.
RemainderLeavesWithRaw ==
  RemainderBelowFloor /\ Since.cursorSince /\ RawReachesFloor =>
    /\ emitting'
    /\ Last'.surplus = accumulateQuantities(remaining, raw'[1].quantity)
    /\ Last'.quantity = capStreamWithMaxQuantity(maxQuantitySetting, Last'.surplus)

\* C29: after a ceiling-capped emission, a remainder smaller than
\* minQuantity is not emitted at the next cursor advance; it stays pending
\* until raw quantities raise the surplus to the floor, and is then emitted
\* together with them.
C29_RemainderWaitsForFloor ==
  [][~failed => RemainderWaits /\ RemainderLeavesWithRaw]_vars

\* The same while every settings value carries the same minQuantity.
C29_SameFloor ==
  [][~failed /\ ~history'.floorVaried => RemainderWaits /\ RemainderLeavesWithRaw]_vars

C29_SameFloorWitness ==
  /\ ~failed
  /\ ~history.floorVaried
  /\ emitting
  /\ raw # NoRaw
  /\ minQuantitySetting = Num(2)
  /\ maxQuantitySetting = Num(2)
  /\ Len(out) = 2
  /\ Previous.surplus = Num(3)
  /\ Pair(Previous) = <<Num(2), <<>>>>
  /\ Last.surplus = Num(2)
  /\ Last.quantity = Num(2)
  /\ Last.after # <<>>


\* C30: an empty batch changes nothing: the cursor keeps its value and stays
\* used or unused as it was, the surplus is unchanged, and no instruction is
\* emitted, one held back by the gate included.
C30_EmptyBatchChangesNothing ==
  [][nEvents' # nEvents /\ Content(<<>>) =>
       /\ combined' = combined
       /\ remaining' = remaining
       /\ out' = out
       /\ ~emitting'
       /\ history'.cursorSort = history.cursorSort
       /\ history'.cursorSince = Since.cursorSince]_vars

\* An instruction of 1 emitted under a ceiling, a surplus of 1 held back by
\* the gate, and the empty batch as the one event since.
C30_Witness ==
  /\ ~failed
  /\ nEvents = 2
  /\ sinceThrottled = 0
  /\ debounced = NoDebounce
  /\ raw = NoRaw
  /\ dropped = NoDrop
  /\ ~history.nonEmptySince
  /\ Len(out) = 1
  /\ remaining = Num(1)
  /\ combined.quantityFresh
  /\ ~combined.afterFresh


\* A raw instruction without a quantity reaches the loop: nothing changes.
RawWithoutQuantityIgnored ==
  raw' # NoRaw /\ raw'[1].quantity = Undefined =>
    remaining' = remaining /\ combined' = combined /\ out' = out /\ ~emitting'

\* What the debounce holds when the first settings value arrives is dropped.
EventsBeforeSettingsDropped ==
  nSettings = 0 /\ nSettings' = 1 => debounced' = NoDebounce /\ remaining' = Num(0)

\* C31: a raw instruction without a quantity adds nothing to the surplus;
\* until the first settings value arrives every raw instruction is without
\* a quantity, the surplus is 0 and no instruction is emitted, and the
\* events the debounce still holds at that moment are dropped.
C31_NothingBeforeSettings ==
  /\ [](nSettings = 0 =>
          /\ remaining = Num(0)
          /\ out = <<>>
          /\ history.added = 0
          /\ (raw # NoRaw => raw[1].quantity = Undefined))
  /\ [][RawWithoutQuantityIgnored /\ EventsBeforeSettingsDropped]_vars

C31_Witness ==
  /\ nSettings = 0
  /\ raw # NoRaw
  /\ raw[1].from = "motion"
  /\ raw[1].deltaY = MaxDelta
  /\ raw[1].quantity = Undefined
  /\ remaining = Num(0)
  /\ out = <<>>


\* C32: a delayed buffer delta that is due is released before the clock
\* advances, whatever the debounce holds and however recent the last
\* throttled emission is; its release is
\* a raw instruction for the whole delta, and it leaves the debounce and the
\* throttle window of the motion events as they were.
C32_BufferBypassesTimers ==
  /\ [][Tick => \A i \in 1..Len(delayed) : delayed[i].ms > 0]_vars
  /\ [][BufferFire =>
          /\ raw' # NoRaw
          /\ raw'[1].from = "buffer"
          /\ raw'[1].quantity = ExpectedQuantity(Head(delayed).deltaY,
                                                 validSettings.contentHeight)
          /\ debounced' = debounced
          /\ sinceThrottled' = sinceThrottled]_vars

\* Released one tick after a motion-driven emission, inside a throttle
\* window of 20 ms.
C32_Witness ==
  /\ raw # NoRaw
  /\ raw[1].from = "buffer"
  /\ raw[1].quantity = Num(1)
  /\ validSettings.throttle = Num(TickMs)
  /\ sinceThrottled = TickMs

\* Released while the debounce holds an event.
C32_WitnessDebounce ==
  /\ raw # NoRaw
  /\ raw[1].from = "buffer"
  /\ debounced.events > 0
  /\ debounced.ms > 0


\* C33: a qualifying motion event received in the same tick as a settings
\* value and before it produces no raw instruction at all, whatever the
\* debounce and the throttle before and after that value: the step of the
\* settings value emits nothing and leaves a debounce that holds nothing,
\* and a throttle with no window open.
C33_EventBeforeSettingsLost ==
  [][nSettings' # nSettings /\ debounced.events > 0 /\ debounced.elapsed = 0 =>
       \A settings \in RawSettingsInputs :
          Settings(settings) =>
            /\ raw' = NoRaw
            /\ debounced'.sum = 0
            /\ debounced'.events = 0
            /\ sinceThrottled' = Never]_vars

C33_Witness ==
  /\ nSettings = 2
  /\ nEvents = 1
  /\ dropped = "settings"
  /\ validSettings.throttle = Num(TickMs)
  /\ debounced.sum = 0
  /\ sinceThrottled = Never

\* C33 as stated, for the settings values that increase the buffer (the
\* delay still holds the whole 20 ms of their delta during their tick): an
\* event received in that tick, before or after the settings value, yields
\* no raw instruction.
C33_EventInSettingsTickLost ==
  [][DebounceFire /\ debounced.elapsed = 0 /\ delayed # <<>>
       /\ delayed[Len(delayed)].ms = BufferDelayMs => raw' = NoRaw]_vars


\* C34: every instruction is delivered from a surplus of at least the
\* minQuantity in effect when it is delivered, a minQuantity raised while a
\* smaller surplus was waiting for the cursor included.
C34_FloorInEffectHolds ==
  emitting /\ minQuantitySetting # Undefined => Ge(Last.surplus, minQuantitySetting)


\* The settings value of the step raises the buffer in effect (with a
\* contentHeight > 0).
BufferRaised ==
  /\ bufferSettingsAreValid(validSettings')
  /\ IntOf(validSettings'.buffer) > lastBuffer

\* C35: a settings value emits no instruction and leaves the surplus and
\* the cursor as they are, and when it does not raise the buffer no buffer
\* delta is put in the delay either; so it is when the settings value lowers
\* or removes minQuantity and the pending surplus now meets the floor.
C35_SettingsEmitNothing ==
  [][nSettings' # nSettings =>
       /\ out' = out
       /\ ~emitting'
       /\ remaining' = remaining
       /\ combined'.after = combined.after
       /\ combined'.quantity = combined.quantity
       /\ combined'.quantityFresh = combined.quantityFresh
       /\ (started => combined' = combined)
       /\ (~BufferRaised => delayed' = delayed)]_vars

\* A surplus of 2 stopped by a floor of 3, then a settings value without
\* floor and without buffer: nothing is emitted.
C35_Witness ==
  /\ nSettings = 2
  /\ ~failed
  /\ minQuantitySetting = Undefined
  /\ history.added = 2
  /\ remaining = Num(2)
  /\ out = <<>>
  /\ delayed = <<>>
  /\ ~combined.quantityFresh
  /\ combined.afterFresh


\* The pending surplus meets the floor in effect although it did not pass
\* the floor when it was reached: it was under the floor of that moment, and
\* minQuantity was lowered or removed since.
SurplusUnderOldFloor ==
  /\ quantityIsPositive(remaining)
  /\ filterStreamWithMinQuantity(minQuantitySetting, remaining)
  /\ ~(combined.quantityFresh /\ combined.quantity = remaining)

\* A step in which a non-empty batch arrives.
NonEmptyBatch ==
  nEvents' # nEvents /\ \E result \in ContentInputs : result # <<>> /\ Content(result)

\* C36: after minQuantity was lowered below a pending surplus that was under
\* the old floor, a non-empty batch alone releases nothing of that surplus;
\* it leaves with the next raw quantity.
C36_BatchAloneReleasesNothing ==
  [][~failed /\ SurplusUnderOldFloor =>
       /\ (NonEmptyBatch => out' = out /\ remaining' = remaining)
       /\ (raw' # NoRaw /\ quantityIsPositive(raw'[1].quantity) /\ combined.afterFresh =>
              emitting' /\ Last'.surplus = accumulateQuantities(remaining, raw'[1].quantity))]_vars

\* The same when the gate holds nothing unused.
C36_NothingAtTheGate ==
  [][~failed /\ SurplusUnderOldFloor /\ ~combined.quantityFresh =>
       /\ (NonEmptyBatch => out' = out /\ remaining' = remaining)
       /\ (raw' # NoRaw /\ quantityIsPositive(raw'[1].quantity) /\ combined.afterFresh =>
              emitting' /\ Last'.surplus = accumulateQuantities(remaining, raw'[1].quantity))]_vars

\* A surplus of 1 stopped by a floor, the floor removed, a batch that moved
\* the cursor and released nothing.
C36_NothingAtTheGateWitness ==
  /\ ~failed
  /\ SurplusUnderOldFloor
  /\ ~combined.quantityFresh
  /\ combined.afterFresh
  /\ combined.after = <<1>>
  /\ minQuantitySetting = Undefined
  /\ history.floorVaried
  /\ remaining = Num(1)


\* C37: a settings value received while the debounce holds qualifying deltas
\* in a window that has not elapsed discards them, with no raw instruction;
\* the next qualifying event starts a new accumulation from its own delta,
\* in a window of the new debounce period, and a delta that leaves the
\* debounce is the sum of the events received since that settings value.
C37_WindowDiscarded ==
  /\ [][nSettings' # nSettings /\ debounced.sum > 0 /\ debounced.ms > 0 =>
          /\ debounced'.sum = 0
          /\ debounced'.events = 0
          /\ raw' = NoRaw]_vars
  /\ [][nEvents' # nEvents /\ debounced'.events = debounced.events + 1 =>
          /\ debounced'.sum - debounced.sum \in 1..MaxDelta
          /\ debounced'.ms = IntOf(validSettings.debounce)]_vars
  /\ [](debounced.sum = debounced.deltaY)

\* An event held for one tick of a window of 20 ms, then a settings value.
C37_Witness ==
  /\ nSettings = 2
  /\ nEvents = 2
  /\ dropped = "settings"
  /\ debounced = NoDebounce
  /\ raw = NoRaw


\* C38: a non-empty batch whose last item has an empty sort key changes
\* nothing: the cursor keeps its value and stays used or unused as it was,
\* and no instruction is emitted, one held back by the gate included; the
\* cursor a batch leaves is never the sort key of an item other than its
\* last.
C38_EmptyLastSortKeyChangesNothing ==
  [][nEvents' # nEvents /\ raw' = NoRaw =>
       \A result \in ContentInputs :
          Content(result) /\ result # <<>> =>
            /\ (result[Len(result)].sort = <<>> =>
                  /\ combined' = combined
                  /\ remaining' = remaining
                  /\ out' = out
                  /\ ~emitting')
            /\ combined'.after \in {combined.after, result[Len(result)].sort}]_vars

\* An instruction of 1 emitted under a ceiling, a surplus held back by the
\* gate, and since then a batch whose last item has no sort key.
C38_Witness ==
  /\ ~failed
  /\ ~emitting
  /\ Len(out) = 1
  /\ history.nonEmptySince
  /\ ~history.cursorSince
  /\ history.lastSort = <<>>
  /\ combined.quantityFresh
  /\ ~combined.afterFresh
  /\ combined.after = <<>>
  /\ quantityIsPositive(remaining)

====
